---- MODULE Spec2Model ----
(***************************************************************************)
(* LiquidLauncher prelauncher: launch() and retrieve_and_copy_mods() of    *)
(* src/minecraft/prelauncher.rs with the progress arithmetic of            *)
(* src/minecraft/progress.rs.                                              *)
(*                                                                         *)
(* The file system is two directories: the mod cache ("mod_cache") and the *)
(* working mods directory ("gameDir/mods").  A file is a string standing   *)
(* for its bytes, NoFile stands for "no such file".  Every single          *)
(* file-system call either takes effect in full or fails without effect.   *)
(***************************************************************************)
EXTENDS Integers, Sequences, FiniteSets, TLC

VARIABLES
    pc,             \* position of the control flow of launch / retrieve_and_copy_mods
    result,         \* what launch returned: "none" while running, "Ok", or the error
    stages,         \* the stages launch has started, in order
    catalog,        \* mc_version_manifest.versions: the ids of the version catalog
    manifest,       \* launch_manifest: [mods, repositories]
    sink,           \* the progress receiver: the [max, progress] it was last sent
    cache,          \* mod_cache: cache path -> bytes
    mods,           \* gameDir/mods: file name -> bytes
    mod_idx,        \* loop index of retrieve_and_copy_mods (0-based)
    max,            \* get_max(manifest.mods.len())
    dl,             \* the download in flight: the last (downloaded, total) it reported
    final_file,     \* bytes about to be written to the cache path
    retrieved,      \* what retrieve_and_copy_mods returned: "none", "Ok", or the error
    failedAt,       \* index of the mod whose processing failed, -1 if none
    lookedUp,       \* indices whose cache path was computed and checked in this run
    downloaded,     \* indices for which a download was started in this run
    copied,         \* indices copied into the mods directory in this run
    reported,       \* a set-progress update was delivered in this run
    lastOk,         \* the manifest of the latest run if it returned Ok, else empty
    repeatRun,      \* this run follows a successful run with the same manifest
    modsAtStart,    \* the mods directory as a repeated run found it
    staleAtStart,   \* the files this run found that its manifest does not select
    version,        \* the version profile being composed
    handed,         \* the version profile handed to launcher::launch
    retrieved_bytes, \* the body the download of the current mod returned
    absentAtStart,  \* the cache paths that did not exist when this run started
    call            \* a call of ProgressUpdate::set_for_step: its arguments and outcome

vars == <<pc, result, stages, catalog, manifest, sink, cache, mods, mod_idx, max, dl,
          final_file, retrieved, failedAt, lookedUp, downloaded, copied, reported,
          lastOk, repeatRun, modsAtStart, staleAtStart, version, handed,
          retrieved_bytes, absentAtStart, call>>

---------------------------------------------------------------------------
(* Bounds and input pools *)

\* longest manifest.mods
MaxMods == 2
\* largest byte count a download reports
MaxBytes == 2

NoFile == "NoFile"
None == "None"

\* ModSource values; the url of SkipAd plays no part in the control flow
SkipAdRaw == [kind |-> "SkipAd", artifact |-> "x", extract |-> FALSE, repository |-> None]
SkipAdZip == [kind |-> "SkipAd", artifact |-> "x", extract |-> TRUE, repository |-> None]
RepoKnown == [kind |-> "Repository", artifact |-> "g:y:1", extract |-> FALSE, repository |-> "r1"]
RepoOther == [kind |-> "Repository", artifact |-> "g:y:1", extract |-> FALSE, repository |-> "r2"]
RepoBadArtifact == [kind |-> "Repository", artifact |-> "bad", extract |-> FALSE, repository |-> "r1"]

Mod(n, r, d, s) == [name |-> n, required |-> r, default |-> d, source |-> s]

\* the mod entries manifests are built from
ModPool ==
    { Mod("a", TRUE, FALSE, SkipAdRaw),
      Mod("b", FALSE, TRUE, SkipAdZip),
      Mod("a", FALSE, TRUE, RepoKnown),
      Mod("b", TRUE, TRUE, RepoOther),
      Mod("b", FALSE, FALSE, RepoKnown),
      Mod("a", TRUE, FALSE, RepoBadArtifact) }

RECURSIVE SeqsUpTo(_, _)
SeqsUpTo(S, n) ==
    IF n = 0 THEN {<<>>}
    ELSE LET shorter == SeqsUpTo(S, n - 1)
         IN  shorter \cup {Append(s, x) : s \in shorter, x \in S}

RepositoryMaps == {{"r1"}}

Manifests == [mods : SeqsUpTo(ModPool, MaxMods), repositories : RepositoryMaps]

Names == {"a", "b"}
\* files of the mods directory: <name>.jar for each mod name, and a file no mod owns
FileNames == Names \cup {"options"}

VersionIds == {"1.20", "1.19"}
Catalogs == {{"1.20"}}

\* what a server may answer to a download: the bytes of the response body
Payloads == {"bytes1", "zip2", "zip3"}
\* bytes of the archive entry mod-1.0.jar of "zip2"
JarBytes == "jar"
Contents == Payloads \cup {JarBytes, "readme", "extra"}

ZipEntry(stem, ext, data) == [stem |-> stem, ext |-> ext, data |-> data]

\* zip::ZipArchive::new(bytes) is Ok: the payload is a readable zip archive
IsZip(p) == p # "bytes1"

\* the entries of the archive, in order
Archive(p) ==
    IF p = "zip2"
    THEN << ZipEntry("readme", "txt", "readme"),
            ZipEntry("mod-1.0", "jar", JarBytes),
            ZipEntry("extra", "jar", "extra") >>
    ELSE << ZipEntry("readme", "txt", "readme") >>

---------------------------------------------------------------------------
(* progress.rs *)

PER_STEP == 1024

\* ProgressUpdateSteps::len
StepsLen == 4

\* ProgressUpdateSteps::step_idx of DownloadLiquidBounceMods
DownloadLiquidBounceMods == 0

Max2(a, b) == IF a >= b THEN a ELSE b

get_progress(idx, curr, total) == idx * 100 + ((curr * 100) \div Max2(total, 1))

get_max(len) == len * 100

\* a scaling that divides before it multiplies
set_for_step_divides_first(step_idx, progress, m) ==
    step_idx * PER_STEP + ((progress \div m) * PER_STEP)

\* the value carried by ProgressUpdate::set_for_step(step, progress, max)
set_for_step(step_idx, progress, m) == step_idx * PER_STEP + ((progress * PER_STEP) \div m)

\* the value carried by ProgressUpdate::set_max()
set_max == StepsLen * PER_STEP

\* the value carried by ProgressUpdate::set_to_max()
set_to_max == StepsLen * PER_STEP

\* what a call of set_for_step comes to: not made, made and not yet returned, returned
\* with the value of a SetProgress, or ended by the panic of a division by zero
Outcome(kind, value) == [kind |-> kind, value |-> value]
NoCall == [step |-> 0, progress |-> 0, max |-> 0, out |-> Outcome("NoCall", 0)]

---------------------------------------------------------------------------
(* collaborators of retrieve_and_copy_mods *)

\* ModSource::get_path: the cache path of a source, or an error for a malformed
\* maven coordinate
PathError == "PathError"
get_path(source) ==
    IF source.kind = "SkipAd" THEN "x.jar"
    ELSE IF source.artifact = "g:y:1" THEN "g/y/1/y-1.jar"
    ELSE PathError

CachePaths == {"x.jar", "g/y/1/y-1.jar"}

\* the (downloaded, total) pairs a download may report next: total is fixed by the
\* first report (0 when the server states no length), downloaded never shrinks and
\* stays within a stated length
NoDl == <<>>

\* a download that returns its bytes has reported at least once, and its last report
\* is the full length when a length was stated
Complete(d) == d # NoDl /\ (d[2] = 0 \/ d[1] = d[2])

NextPairs(d) ==
    LET from == IF d = NoDl THEN 0 ELSE d[1]
        totals == IF d = NoDl THEN 0 .. MaxBytes ELSE {d[2]}
    IN  {p \in (from .. MaxBytes) \X totals : p[2] = 0 \/ p[1] <= p[2]}

\* name.ends_with(".jar")
EndsWithJar(e) == e.ext = "jar"

\* an extraction that takes the first entry of the archive, whatever its name
FirstEntry(entries) == IF entries = <<>> THEN 0 ELSE 1

\* archive.file_names().find(|x| x.ends_with(".jar")): index of the entry, 0 if none
FirstJar(entries) ==
    LET hits == {i \in 1 .. Len(entries) : EndsWithJar(entries[i])}
    IN  IF hits = {} THEN 0 ELSE CHOOSE i \in hits : \A j \in hits : i <= j

Selected(m) == m.required \/ m.default

---------------------------------------------------------------------------
(* initial state: nothing was launched yet; the cache is empty and the mods
   directory holds whatever the user left in it *)

NoFiles == [f \in FileNames |-> NoFile]
EmptyManifest == [mods |-> <<>>, repositories |-> {"r1"}]
NoVersion == [inherits_from |-> None, merged |-> None]

Init ==
    /\ pc = "start"
    /\ result = "none"
    /\ stages = <<>>
    /\ catalog = {}
    /\ manifest = EmptyManifest
    /\ sink = [max |-> 0, progress |-> 0]
    /\ cache = [p \in CachePaths |-> NoFile]
    /\ mods \in {f \in [FileNames -> {NoFile, "bytes1"}] : \A n \in Names : f[n] = NoFile}
    /\ mod_idx = 0
    /\ max = 0
    /\ dl = NoDl
    /\ final_file = NoFile
    /\ retrieved = "none"
    /\ failedAt = -1
    /\ lookedUp = {}
    /\ downloaded = {}
    /\ copied = {}
    /\ reported = FALSE
    /\ lastOk = {}
    /\ repeatRun = FALSE
    /\ modsAtStart = NoFiles
    /\ staleAtStart = {}
    /\ version = NoVersion
    /\ handed = None
    /\ retrieved_bytes = NoFile
    /\ absentAtStart = {}
    /\ call = NoCall

launchVars == <<catalog, manifest, version, handed>>
fsVars == <<cache, mods>>
runVars == <<mod_idx, max, dl, final_file, retrieved, failedAt, lookedUp, downloaded,
             copied, reported, repeatRun, modsAtStart, staleAtStart, retrieved_bytes,
             absentAtStart>>

\* the ? operator: the error of the callee is the error of the caller
Propagate(e) == e

\* a failing stage that is tried again
AbortRetries(e) ==
    /\ pc' = pc
    /\ result' = result

\* launch returns Err(e) (or unwinds with the panic e)
Abort(e) ==
    /\ pc' = "done"
    /\ result' = Propagate(e)

---------------------------------------------------------------------------
(* launch, prelauncher.rs lines 19-31 *)

\* line 21: VersionManifest::download().await?
DownloadVersionManifest ==
    /\ pc \in {"start", "done"}
    /\ stages' = <<"catalog">>
    /\ \/ /\ \E c \in Catalogs : catalog' = c
          /\ pc' = "manifest"
          /\ result' = "none"
       \/ /\ Abort("TransportError")
          /\ catalog' = {}
    /\ manifest' = EmptyManifest
    /\ version' = NoVersion
    /\ handed' = None
    /\ mod_idx' = 0
    /\ max' = 0
    /\ dl' = NoDl
    /\ final_file' = NoFile
    /\ retrieved' = "none"
    /\ failedAt' = -1
    /\ lookedUp' = {}
    /\ downloaded' = {}
    /\ copied' = {}
    /\ reported' = FALSE
    /\ repeatRun' = FALSE
    /\ modsAtStart' = NoFiles
    /\ staleAtStart' = {}
    /\ retrieved_bytes' = NoFile
    /\ absentAtStart' = {}
    /\ UNCHANGED <<sink, fsVars, lastOk, call>>

\* lines 24-28: LauncherApi::load_version_manifest(build.build_id).await?, then
\* progress_update(set_max()) and progress_update(SetProgress(0))
LoadLaunchManifest ==
    /\ pc = "manifest"
    /\ \/ /\ \E m \in Manifests : manifest' = m
          /\ stages' = stages \o <<"manifest", "set_max", "set_progress">>
          /\ sink' = [sink EXCEPT !.max = set_max, !.progress = 0]
          /\ pc' = "retrieve"
          /\ result' = result
       \/ /\ Abort("TransportError")
          /\ stages' = Append(stages, "manifest")
          /\ UNCHANGED <<manifest, sink>>
    /\ UNCHANGED <<catalog, version, handed, fsVars, runVars, lastOk, call>>

---------------------------------------------------------------------------
(* retrieve_and_copy_mods, prelauncher.rs lines 63-138 *)

\* an error that is noted and not returned: the loop goes on with the next mod
RetrieveFailGoesOn(e, k) ==
    /\ retrieved' = retrieved
    /\ failedAt' = k
    /\ pc' = "loop"
    /\ result' = result

\* retrieve_and_copy_mods returns Err(e) at mod k (or panics), and the ? of line 31
\* makes launch return it
RetrieveFail(e, k) ==
    /\ retrieved' = e
    /\ failedAt' = k
    /\ Abort(e)

\* the names of the mods the manifest selects
SelectedNames(m) == {m.mods[i].name : i \in {j \in 1 .. Len(m.mods) : Selected(m.mods[j])}}

\* the regular files of the mods directory
Present(dir) == {f \in FileNames : dir[f] # NoFile}

Removed(dir, gone) == [f \in FileNames |-> IF f \in gone THEN NoFile ELSE dir[f]]

\* a clearing loop that removes nothing
ClearedNothing(dir) == dir

\* lines 71-77: every regular file of the mods directory is removed
Cleared(dir) == Removed(dir, Present(dir))

\* lines 64-79: create both directories, clear the mods directory, compute max.
\* A failing call returns its error; the clearing loop may have removed some files
\* by then.
RetrieveStart ==
    /\ pc = "retrieve"
    /\ stages' = Append(stages, "retrieve")
    /\ mod_idx' = 0
    /\ dl' = NoDl
    /\ final_file' = NoFile
    /\ lookedUp' = {}
    /\ downloaded' = {}
    /\ copied' = {}
    /\ reported' = FALSE
    /\ repeatRun' = (manifest \in lastOk)
    /\ modsAtStart' = IF manifest \in lastOk THEN mods ELSE NoFiles
    /\ staleAtStart' = Present(mods) \ SelectedNames(manifest)
    /\ retrieved_bytes' = NoFile
    /\ absentAtStart' = {p \in CachePaths : cache[p] = NoFile}
    /\ lastOk' = {}
    /\ \/ /\ mods' = Cleared(mods)
          /\ max' = get_max(Len(manifest.mods))
          /\ pc' = "loop"
          /\ failedAt' = -1
          /\ UNCHANGED <<result, retrieved>>
       \/ /\ \E gone \in SUBSET Present(mods) :
                /\ gone = {} \/ gone # Present(mods)
                /\ mods' = Removed(mods, gone)
          /\ max' = max
          /\ RetrieveFail("IoError", -1)
    /\ UNCHANGED <<launchVars, sink, cache, call>>

\* the skip test reading required alone
IsSkippedRequiredOnly(m) == ~m.required

\* line 83: the mod is skipped
IsSkipped(m) == ~m.required /\ ~m.default

\* a cache that is never found: every run downloads again
ExistsNever(path) == FALSE

\* line 92: current_mod_path.exists()
Exists(path) == cache[path] # NoFile

\* a lookup that never misses
HasRepositoryAlways(m, repository) == TRUE

\* line 121: manifest.repositories.get(repository) is Some
HasRepository(m, repository) == repository \in m.repositories

CurrentMod == manifest.mods[mod_idx + 1]

\* lines 81-96 and 119-121: one turn of the loop up to the download or the copy
\* (the label update of line 87 leaves max and progress of the receiver alone)
ExamineMod ==
    /\ pc = "loop"
    /\ mod_idx < Len(manifest.mods)
    /\ LET cur == CurrentMod
           path == get_path(cur.source)
       IN  IF IsSkipped(cur)
           THEN /\ mod_idx' = mod_idx + 1
                /\ UNCHANGED <<pc, result, sink, retrieved, failedAt, lookedUp, downloaded>>
           ELSE /\ sink' = sink
                /\ lookedUp' = lookedUp \cup {mod_idx}
                /\ mod_idx' = mod_idx
                /\ IF path = PathError
                   THEN /\ RetrieveFail(PathError, mod_idx)
                        /\ downloaded' = downloaded
                   ELSE IF Exists(path)
                   THEN /\ pc' = "copy"
                        /\ UNCHANGED <<result, retrieved, failedAt, downloaded>>
                   ELSE \/ /\ RetrieveFail("IoError", mod_idx)
                           /\ downloaded' = downloaded
                        \/ IF /\ cur.source.kind = "Repository"
                              /\ ~HasRepository(manifest, cur.source.repository)
                           THEN /\ RetrieveFail("InvalidVersionProfile", mod_idx)
                                /\ downloaded' = downloaded
                           ELSE /\ pc' = "download"
                                /\ downloaded' = downloaded \cup {mod_idx}
                                /\ UNCHANGED <<result, retrieved, failedAt>>
    /\ UNCHANGED <<stages, launchVars, fsVars, max, dl, final_file, copied, reported,
                   repeatRun, modsAtStart, staleAtStart, lastOk, retrieved_bytes,
                   absentAtStart, call>>

\* lines 98 and 124: the callback of download_client / download_file
DownloadProgress ==
    /\ pc = "download"
    /\ \E p \in NextPairs(dl) :
          /\ dl' = p
          /\ sink' = [sink EXCEPT !.progress =
                         set_for_step(DownloadLiquidBounceMods,
                                      get_progress(mod_idx, p[1], p[2]), max)]
    /\ reported' = TRUE
    /\ UNCHANGED <<pc, result, stages, launchVars, fsVars, mod_idx, max, final_file,
                   retrieved, failedAt, lookedUp, downloaded, copied, repeatRun,
                   modsAtStart, staleAtStart, lastOk, retrieved_bytes, absentAtStart,
                   call>>

\* a download whose body is stored at the cache path as soon as it has returned,
\* before the archive is looked at
DownloadDoneCachesFirst ==
    /\ pc = "download"
    /\ dl' = NoDl
    /\ \/ /\ RetrieveFail("TransportError", mod_idx)
          /\ UNCHANGED <<final_file, retrieved_bytes, cache>>
       \/ /\ Complete(dl)
          /\ \E p \in Payloads :
                LET src == CurrentMod.source
                    entries == Archive(p)
                IN  /\ retrieved_bytes' = p
                    /\ cache' = [cache EXCEPT ![get_path(src)] = p]
                    /\ IF src.kind = "SkipAd" /\ src.extract
                       THEN IF ~IsZip(p)
                            THEN /\ RetrieveFail("Panic", mod_idx)
                                 /\ final_file' = final_file
                            ELSE IF FirstJar(entries) = 0
                            THEN /\ RetrieveFail("InvalidVersionProfile", mod_idx)
                                 /\ final_file' = final_file
                            ELSE \/ /\ final_file' = entries[FirstJar(entries)].data
                                    /\ pc' = "write"
                                    /\ UNCHANGED <<result, retrieved, failedAt>>
                                 \/ /\ RetrieveFail("ZipError", mod_idx)
                                    /\ final_file' = final_file
                       ELSE /\ final_file' = p
                            /\ pc' = "write"
                            /\ UNCHANGED <<result, retrieved, failedAt>>
    /\ UNCHANGED <<stages, launchVars, sink, mods, mod_idx, max, lookedUp, downloaded,
                   copied, reported, repeatRun, modsAtStart, staleAtStart, lastOk,
                   absentAtStart, call>>

\* lines 98-115 and 123-125: the download returns, a SkipAd archive is extracted
DownloadDone ==
    /\ pc = "download"
    /\ dl' = NoDl
    /\ \/ /\ RetrieveFail("TransportError", mod_idx)
          /\ UNCHANGED <<final_file, retrieved_bytes>>
       \/ /\ Complete(dl)
          /\ \E p \in Payloads :
                LET src == CurrentMod.source
                    entries == Archive(p)
                IN  /\ retrieved_bytes' = p
                    /\ IF src.kind = "SkipAd" /\ src.extract
                       THEN IF ~IsZip(p)
                            THEN /\ RetrieveFail("Panic", mod_idx)
                                 /\ final_file' = final_file
                            ELSE IF FirstJar(entries) = 0
                            THEN /\ RetrieveFail("InvalidVersionProfile", mod_idx)
                                 /\ final_file' = final_file
                            ELSE \/ /\ final_file' = entries[FirstJar(entries)].data
                                    /\ pc' = "write"
                                    /\ UNCHANGED <<result, retrieved, failedAt>>
                                 \/ /\ RetrieveFail("ZipError", mod_idx)
                                    /\ final_file' = final_file
                       ELSE /\ final_file' = p
                            /\ pc' = "write"
                            /\ UNCHANGED <<result, retrieved, failedAt>>
    /\ UNCHANGED <<stages, launchVars, sink, fsVars, mod_idx, max, lookedUp, downloaded,
                   copied, reported, repeatRun, modsAtStart, staleAtStart, lastOk,
                   absentAtStart, call>>

\* a write that is started and not awaited: the loop goes on to the copy while the
\* cache entry is not there yet
WriteCacheNotAwaited ==
    /\ pc = "write"
    /\ final_file' = NoFile
    /\ pc' = "copy"
    /\ UNCHANGED <<result, retrieved, failedAt, cache>>
    /\ UNCHANGED <<stages, launchVars, sink, mods, mod_idx, max, dl, lookedUp, downloaded,
                   copied, reported, repeatRun, modsAtStart, staleAtStart, lastOk,
                   retrieved_bytes, absentAtStart, call>>

\* lines 117 and 127: tokio::fs::write(&current_mod_path, ...)
WriteCache ==
    /\ pc = "write"
    /\ \/ /\ cache' = [cache EXCEPT ![get_path(CurrentMod.source)] = final_file]
          /\ final_file' = NoFile
          /\ pc' = "copy"
          /\ UNCHANGED <<result, retrieved, failedAt>>
       \/ /\ RetrieveFail("IoError", mod_idx)
          /\ UNCHANGED <<cache, final_file>>
    /\ UNCHANGED <<stages, launchVars, sink, mods, mod_idx, max, dl, lookedUp, downloaded,
                   copied, reported, repeatRun, modsAtStart, staleAtStart, lastOk,
                   retrieved_bytes, absentAtStart, call>>

\* a copy that leaves a file of that name alone when there is one
CopyModKeepsExisting ==
    /\ pc = "copy"
    /\ \/ /\ mods' = IF mods[CurrentMod.name] # NoFile THEN mods
                   ELSE [mods EXCEPT ![CurrentMod.name] = cache[get_path(CurrentMod.source)]]
          /\ copied' = copied \cup {mod_idx}
          /\ mod_idx' = mod_idx + 1
          /\ retrieved_bytes' = NoFile
          /\ pc' = "loop"
          /\ UNCHANGED <<result, retrieved, failedAt>>
       \/ /\ RetrieveFail("IoError", mod_idx)
          /\ UNCHANGED <<mods, copied, mod_idx, retrieved_bytes>>
    /\ UNCHANGED <<stages, launchVars, sink, cache, max, dl, final_file, lookedUp,
                   downloaded, reported, repeatRun, modsAtStart, staleAtStart, lastOk,
                   absentAtStart, call>>

\* line 133: tokio::fs::copy(&current_mod_path, mods_path.join("<name>.jar"))
CopyMod ==
    /\ pc = "copy"
    /\ \/ /\ mods' = [mods EXCEPT ![CurrentMod.name] = cache[get_path(CurrentMod.source)]]
          /\ copied' = copied \cup {mod_idx}
          /\ mod_idx' = mod_idx + 1
          /\ retrieved_bytes' = NoFile
          /\ pc' = "loop"
          /\ UNCHANGED <<result, retrieved, failedAt>>
       \/ /\ RetrieveFail("IoError", mod_idx)
          /\ UNCHANGED <<mods, copied, mod_idx, retrieved_bytes>>
    /\ UNCHANGED <<stages, launchVars, sink, cache, max, dl, final_file, lookedUp,
                   downloaded, reported, repeatRun, modsAtStart, staleAtStart, lastOk,
                   absentAtStart, call>>

\* line 136: Ok(()), and launch goes on after line 31
RetrieveOk ==
    /\ pc = "loop"
    /\ mod_idx = Len(manifest.mods)
    /\ retrieved' = "Ok"
    /\ lastOk' = {manifest}
    /\ pc' = "profile"
    /\ UNCHANGED <<result, stages, launchVars, sink, fsVars, mod_idx, max, dl, final_file,
                   failedAt, lookedUp, downloaded, copied, reported, repeatRun,
                   modsAtStart, staleAtStart, retrieved_bytes, absentAtStart, call>>

---------------------------------------------------------------------------
(* launch, prelauncher.rs lines 33-61 *)

\* a lookup that takes any version of the catalog for the parent
FindAnyVersion(versions, id) == versions # {}

\* line 45: mc_version_manifest.versions.iter().find(|x| &x.id == inherited_version)
FindVersion(versions, id) == id \in versions

\* lines 34-47: load the version profile, look its parent up in the catalog
LoadVersionProfile ==
    /\ pc = "profile"
    /\ \/ /\ stages' = Append(stages, "profile")
          /\ \E e \in {"TransportError", "InvalidVersionProfile"} : Abort(e)
          /\ version' = version
       \/ /\ version' = NoVersion
          /\ stages' = Append(stages, "profile")
          /\ pc' = "handoff"
          /\ result' = result
       \/ \E parent \in VersionIds :
             /\ version' = [inherits_from |-> parent, merged |-> None]
             /\ stages' = stages \o <<"profile", "find_parent">>
             /\ IF FindVersion(catalog, parent)
                THEN pc' = "parent" /\ result' = result
                ELSE Abort("InvalidVersionProfile")
    /\ UNCHANGED <<catalog, manifest, handed, sink, fsVars, runVars, lastOk, call>>

\* lines 52-54: load the parent profile and merge it into the profile
LoadParent ==
    /\ pc = "parent"
    /\ \/ /\ stages' = Append(stages, "parent")
          /\ Abort("TransportError")
          /\ version' = version
       \/ /\ stages' = stages \o <<"parent", "merge">>
          /\ Abort("MergeError")
          /\ version' = version
       \/ /\ stages' = stages \o <<"parent", "merge">>
          /\ version' = [version EXCEPT !.merged = version.inherits_from]
          /\ pc' = "handoff"
          /\ result' = result
    /\ UNCHANGED <<catalog, manifest, handed, sink, fsVars, runVars, lastOk, call>>

\* line 59: launcher::launch(version, launching_parameter, launcher_data).await?
LauncherLaunch ==
    /\ pc = "handoff"
    /\ stages' = Append(stages, "launcher")
    /\ handed' = version
    /\ pc' = "done"
    /\ \E r \in {"Ok", "LaunchError"} : result' = Propagate(r)
    /\ UNCHANGED <<catalog, manifest, version, sink, fsVars, runVars, lastOk, call>>

Next ==
    \/ DownloadVersionManifest
    \/ LoadLaunchManifest
    \/ RetrieveStart
    \/ ExamineMod
    \/ DownloadProgress
    \/ DownloadDone
    \/ WriteCache
    \/ CopyMod
    \/ RetrieveOk
    \/ LoadVersionProfile
    \/ LoadParent
    \/ LauncherLaunch

Spec == Init /\ [][Next]_vars

---------------------------------------------------------------------------
(* ProgressUpdate::set_for_step as a function of its arguments, progress.rs
   lines 22-57: any step, any progress and any max, the launcher at rest *)

\* largest progress and largest max a call is given
MaxProgress == 4

\* ProgressUpdateSteps::step_idx: the four steps
Steps == 0 .. (StepsLen - 1)

\* a / b on u64 panics ("attempt to divide by zero") when b is 0
DivPanics(divisor) == divisor = 0

\* lines 47-49: the call returns SetProgress(value) or panics in the division
SetForStep(step_idx, progress, m) ==
    IF DivPanics(m)
    THEN Outcome("Panic", 0)
    ELSE Outcome("SetProgress", set_for_step(step_idx, progress, m))

InitProgress ==
    /\ pc = "start"
    /\ result = "none"
    /\ stages = <<>>
    /\ catalog = {}
    /\ manifest = EmptyManifest
    /\ sink = [max |-> 0, progress |-> 0]
    /\ cache = [p \in CachePaths |-> NoFile]
    /\ mods = NoFiles
    /\ mod_idx = 0
    /\ max = 0
    /\ dl = NoDl
    /\ final_file = NoFile
    /\ retrieved = "none"
    /\ failedAt = -1
    /\ lookedUp = {}
    /\ downloaded = {}
    /\ copied = {}
    /\ reported = FALSE
    /\ lastOk = {}
    /\ repeatRun = FALSE
    /\ modsAtStart = NoFiles
    /\ staleAtStart = {}
    /\ version = NoVersion
    /\ handed = None
    /\ retrieved_bytes = NoFile
    /\ absentAtStart = {}
    /\ call \in [step : Steps, progress : 0 .. MaxProgress, max : 0 .. MaxProgress,
                 out : {Outcome("Pending", 0)}]

\* the call is made and returns or panics
CallSetForStep ==
    /\ call.out.kind = "Pending"
    /\ call' = [call EXCEPT !.out = SetForStep(call.step, call.progress, call.max)]
    /\ UNCHANGED <<pc, result, stages, sink, launchVars, fsVars, runVars, lastOk>>

NextProgress == CallSetForStep

SpecProgress == InitProgress /\ [][NextProgress]_vars

---------------------------------------------------------------------------
(* Properties *)

Indices == 0 .. (Len(manifest.mods) - 1)
ModAt(i) == manifest.mods[i + 1]
SelectedIndices == {i \in Indices : Selected(ModAt(i))}

\* C1: a run that follows a successful run with the same manifest starts no
\* download, and when it returns Ok the mods directory is, file by file and byte
\* by byte, what it was when the run started (what the first run left).
C1_Idempotence ==
    repeatRun =>
        /\ downloaded = {}
        /\ pc \notin {"download", "write"}
        /\ retrieved = "Ok" => mods = modsAtStart

C1_Witness ==
    /\ repeatRun
    /\ retrieved = "Ok"
    /\ Cardinality(copied) = 2
    /\ cache["x.jar"] # NoFile

\* C2 as stated: after a successful run, <name>.jar of every entry is present iff
\* that entry has required || default.
C2_Original ==
    retrieved = "Ok" =>
        \A i \in Indices : (mods[ModAt(i).name] # NoFile) <=> Selected(ModAt(i))

\* C2 amended: after a successful run, <name>.jar of every entry is present iff
\* some entry of that name has required || default; an entry with neither flag is
\* never looked up in the cache, downloaded or copied.
C2_Selection ==
    /\ retrieved = "Ok" =>
          \A i \in Indices :
              (mods[ModAt(i).name] # NoFile) <=>
                  \E j \in Indices : ModAt(j).name = ModAt(i).name /\ Selected(ModAt(j))
    /\ (lookedUp \cup downloaded \cup copied) \subseteq SelectedIndices

C2_Witness ==
    /\ retrieved = "Ok"
    /\ \E i, j \in Indices :
          /\ Selected(ModAt(i)) /\ ~Selected(ModAt(j))
          /\ ModAt(i).name # ModAt(j).name
          /\ mods[ModAt(i).name] # NoFile
          /\ mods[ModAt(j).name] = NoFile

\* C3: whenever the latest run returned Ok, the regular files of the mods directory
\* are exactly the files of the names its manifest selects, whatever earlier runs
\* or the user left there.
C3_NoStaleLeftovers ==
    retrieved = "Ok" => Present(mods) = SelectedNames(manifest)

C3_Witness ==
    /\ retrieved = "Ok"
    /\ staleAtStart \cap Names # {}
    /\ SelectedNames(manifest) # {}

\* the bytes <name>.jar holds after the selected entries below index k were copied:
\* those of the cache entry of the last of them with that name
LastNamed(n, k) == {i \in SelectedIndices : i < k /\ ModAt(i).name = n}
Newest(S) == CHOOSE i \in S : \A j \in S : j <= i
PrefixMods(k) ==
    [n \in FileNames |->
        IF LastNamed(n, k) = {} THEN NoFile
        ELSE cache[get_path(ModAt(Newest(LastNamed(n, k))).source)]]

ReturnedErrors == {"TransportError", "InvalidVersionProfile", "IoError", "ZipError", PathError}

\* C4: when the processing of mod k fails with an error, that error is what the run
\* and launch return, no entry after k was looked up, downloaded or copied, k was not
\* copied, the mods directory holds exactly the files of the selected entries before
\* k, and a run that returned Ok failed nowhere and copied every selected entry.
C4_FailFast ==
    /\ failedAt >= 0 =>
          /\ retrieved \in ReturnedErrors \cup {"Panic"}
          /\ result = retrieved
          /\ pc = "done"
          /\ mod_idx = failedAt
          /\ \A i \in lookedUp \cup downloaded : i <= failedAt
          /\ copied = {i \in SelectedIndices : i < failedAt}
          /\ mods = PrefixMods(failedAt)
    /\ retrieved = "Ok" => failedAt = -1 /\ copied = SelectedIndices
    /\ retrieved = "none" => failedAt = -1

C4_Witness ==
    /\ failedAt = 1
    /\ retrieved \in ReturnedErrors
    /\ copied = {0}
    /\ mods[ModAt(0).name] # NoFile

IsPrefix(s, t) == Len(s) <= Len(t) /\ \A i \in 1 .. Len(s) : s[i] = t[i]
Last(s) == s[Len(s)]
Started(stage) == \E i \in 1 .. Len(stages) : stages[i] = stage

UpToProfile == <<"catalog", "manifest", "set_max", "set_progress", "retrieve", "profile">>
WithoutParent == UpToProfile \o <<"launcher">>
WithParent == UpToProfile \o <<"find_parent", "parent", "merge", "launcher">>

\* C5: the stages of launch start in the order catalog, manifest, progress reset
\* (maximum, then progress 0), retrieval, profile load (parent lookup, parent load,
\* merge), launcher, each at most once; a failed stage is the last one started and
\* launch returns its error; the launcher is started only when every earlier stage
\* succeeded, and launch returns Ok only after the whole sequence.
C5_Ordering ==
    /\ IsPrefix(stages, WithoutParent) \/ IsPrefix(stages, WithParent)
    /\ pc = "done" <=> result # "none"
    /\ retrieved \notin {"none", "Ok"} =>
          /\ result = retrieved
          /\ Last(stages) = "retrieve"
    /\ Started("profile") => retrieved = "Ok"
    /\ Started("parent") => FindVersion(catalog, version.inherits_from)
    /\ Started("launcher") =>
          /\ retrieved = "Ok"
          /\ handed = version
          /\ version.merged = version.inherits_from
          /\ result \in {"Ok", "LaunchError"}
    /\ result = "Ok" => stages \in {WithoutParent, WithParent}
    /\ result \notin {"none", "Ok", "LaunchError"} => ~Started("launcher") /\ handed = None

C5_Witness ==
    /\ result = "Ok"
    /\ stages = WithParent
    /\ handed.merged = "1.20"
    /\ copied # {}

\* C6 as stated: every progress a download callback delivers is, as phase progress
\* get_progress(mod_idx, downloaded, total), at most get_max(number of mods), and as
\* the value sent to the receiver at most PER_STEP.
C6_ProgressBound ==
    (pc = "download" /\ dl # NoDl) =>
        /\ get_progress(mod_idx, dl[1], dl[2]) <= get_max(Len(manifest.mods))
        /\ sink.progress <= PER_STEP

\* C7 as stated: within one run the values delivered to the receiver never decrease.
C7_Monotone == [][(reported /\ reported') => sink'.progress >= sink.progress]_vars

\* C8 as stated: once mod i is copied in this run, the latest progress delivered to
\* the receiver is at least that of phase progress (i + 1) * 100.
C8_AfterCompletion ==
    \A i \in copied :
        sink.progress >= set_for_step(DownloadLiquidBounceMods, (i + 1) * 100, max)

MissingRepository(i) ==
    /\ i \in SelectedIndices
    /\ ModAt(i).source.kind = "Repository"
    /\ ModAt(i).source.repository \notin manifest.repositories

\* C9 as stated: a selected Repository entry whose repository is no key of the
\* mapping is never copied and its run never returns Ok, whatever the cache holds.
C9_Original ==
    \A i \in Indices :
        MissingRepository(i) => i \notin copied /\ retrieved # "Ok"

\* C9 amended: a selected Repository entry whose repository is no key of the mapping
\* is never downloaded; when the run reaches it and its cache path does not exist,
\* the run fails there, with InvalidVersionProfile unless the path computation or the
\* creation of the parent directory failed first, and the entry is not copied; when
\* its cache path exists the entry is copied without a lookup of the repository.
C9_RepositoryKey ==
    \A i \in Indices :
        MissingRepository(i) =>
            /\ i \notin downloaded
            /\ (i \in lookedUp /\ cache[get_path(ModAt(i).source)] = NoFile) =>
                  /\ failedAt = i
                  /\ retrieved \in {"InvalidVersionProfile", "IoError"}
                  /\ i \notin copied
            /\ (i \in lookedUp /\ cache[get_path(ModAt(i).source)] # NoFile) =>
                  /\ failedAt = i => retrieved = "IoError"
                  /\ (mod_idx > i \/ retrieved = "Ok") => i \in copied

C9_Witness ==
    /\ retrieved = "InvalidVersionProfile"
    /\ failedAt = 1
    /\ MissingRepository(1)
    /\ copied = {0}

\* C10: a cache entry that exists is never changed or removed by any later step, and
\* a download is only ever in flight for a cache path that does not exist.
C10_WriteOnce ==
    [][/\ \A p \in CachePaths : cache[p] # NoFile => cache'[p] = cache[p]
       /\ pc' \in {"download", "write"} => cache'[get_path(CurrentMod.source)'] = NoFile]_vars

C10_Witness ==
    /\ pc = "copy"
    /\ mod_idx \notin downloaded
    /\ lastOk = {}
    /\ cache[get_path(CurrentMod.source)] \in Payloads
    /\ \E p \in CachePaths : cache[p] = JarBytes

\* the current mod is a DirectDownload (SkipAd) entry to be extracted
Extracting == pc \in {"write", "copy", "done"} /\ mod_idx < Len(manifest.mods)
                 /\ CurrentMod.source.kind = "SkipAd" /\ CurrentMod.source.extract

\* C11 as stated: when the bytes downloaded for a selected SkipAd entry with
\* extract = true are not a readable zip archive, retrieve_and_copy_mods has
\* returned an error value to its caller, as for every other failure; it has not
\* terminated abnormally.
C11_ArchiveError ==
    /\ (Extracting /\ retrieved_bytes # NoFile /\ ~IsZip(retrieved_bytes)) =>
          /\ failedAt = mod_idx
          /\ retrieved \in ReturnedErrors
    /\ retrieved # "Panic"

\* C12 as stated: set_for_step clamps max to at least 1, so a call with max = 0
\* returns a set-progress value, for every step and every progress; it never
\* divides by zero.
C12_ZeroMaxGuard ==
    (call.out.kind \notin {"NoCall", "Pending"} /\ call.max = 0) =>
        /\ call.out.kind = "SetProgress"
        /\ call.out.value = call.step * PER_STEP + ((call.progress * PER_STEP) \div 1)

\* a call with 0 <= progress <= max has returned a value
ReturnedInRange == call.out.kind = "SetProgress" /\ call.progress <= call.max

\* C13 as stated: for each of the 4 steps and every progress with
\* 0 <= progress <= max, set_for_step yields
\* step_idx * 1024 + floor(progress * 1024 / max), and this value lies in
\* [0, 4 * 1024): it is strictly below the full-scale value of set_max / set_to_max.
C13_Original ==
    ReturnedInRange =>
        /\ call.out.value = call.step * 1024 + ((call.progress * 1024) \div call.max)
        /\ 0 <= call.out.value
        /\ call.out.value < set_max
        /\ call.out.value < set_to_max

\* C13 amended: for each of the 4 steps and every progress with
\* 0 <= progress <= max, max >= 1, set_for_step yields
\* step_idx * 1024 + floor(progress * 1024 / max); this value lies in the closed
\* interval [step_idx * 1024, (step_idx + 1) * 1024], so in [0, 4 * 1024], and it
\* equals the full-scale value of set_max / set_to_max exactly for the last step
\* with progress = max.
C13_Range ==
    ReturnedInRange =>
        /\ call.max >= 1
        /\ call.out.value = call.step * 1024 + ((call.progress * 1024) \div call.max)
        /\ call.step * 1024 <= call.out.value
        /\ call.out.value <= (call.step + 1) * 1024
        /\ 0 <= call.out.value /\ call.out.value <= set_max
        /\ set_max = 4 * 1024 /\ set_to_max = set_max
        /\ call.out.value = set_max <=> (call.step = 3 /\ call.progress = call.max)

C13_Witness ==
    /\ ReturnedInRange
    /\ call.step = 3
    /\ call.progress = call.max
    /\ call.out.value = set_to_max

\* the entries of an archive whose name ends in ".jar"
JarIndices(entries) == {i \in 1 .. Len(entries) : entries[i].ext = "jar"}

\* C14: for a selected SkipAd entry on a cache miss whose download returned: with
\* extract = true the bytes written to the cache path are the contents of the first
\* archive entry whose name ends in ".jar", not the raw archive; with extract = true
\* and no such entry the run fails with InvalidVersionProfile and neither the cache
\* entry nor the mod file of that entry is written; with extract = false the raw
\* bytes are written.
C14_Extraction ==
    (mod_idx \in downloaded /\ retrieved_bytes # NoFile /\ CurrentMod.source.kind = "SkipAd") =>
        LET src == CurrentMod.source
            path == get_path(src)
            entries == Archive(retrieved_bytes)
            jars == JarIndices(entries)
        IN  /\ ~src.extract =>
                  /\ pc = "write" => final_file = retrieved_bytes
                  /\ pc = "copy" => cache[path] = retrieved_bytes
            /\ (src.extract /\ IsZip(retrieved_bytes) /\ jars # {}) =>
                  \E i \in jars :
                      /\ \A j \in jars : i <= j
                      /\ pc = "write" => final_file = entries[i].data
                      /\ pc = "copy" => cache[path] = entries[i].data
                      /\ entries[i].data # retrieved_bytes
            /\ (src.extract /\ IsZip(retrieved_bytes) /\ jars = {}) =>
                  /\ pc = "done"
                  /\ failedAt = mod_idx
                  /\ retrieved = "InvalidVersionProfile"
                  /\ cache[path] = NoFile
                  /\ mod_idx \notin copied

C14_Witness ==
    /\ pc = "copy"
    /\ mod_idx \in downloaded
    /\ CurrentMod.source = SkipAdZip
    /\ retrieved_bytes = "zip2"
    /\ cache["x.jar"] = JarBytes
    /\ Len(Archive(retrieved_bytes)) = 3

\* C15: when the loaded profile declares inherits_from = P and the catalog has no
\* version with id P, launch fails with InvalidVersionProfile, no parent profile is
\* loaded, nothing is merged and the launcher is never started; when the profile
\* declares no parent it is handed to the launcher as loaded, and the catalog is not
\* searched.
C15_UnresolvableParent ==
    /\ (Started("profile") /\ version.inherits_from # None
           /\ version.inherits_from \notin catalog) =>
          /\ pc = "done"
          /\ result = "InvalidVersionProfile"
          /\ Last(stages) = "find_parent"
          /\ ~Started("parent") /\ ~Started("merge") /\ ~Started("launcher")
          /\ version.merged = None
          /\ handed = None
    /\ (Started("launcher") /\ version.inherits_from = None) =>
          /\ handed = NoVersion
          /\ ~Started("find_parent") /\ ~Started("parent") /\ ~Started("merge")

C15_Witness ==
    /\ result = "InvalidVersionProfile"
    /\ Started("find_parent")
    /\ version.inherits_from = "1.19"
    /\ "1.19" \notin catalog
    /\ copied # {}

\* the entry at index i was dealt with in full: its cache entry exists and its copy
\* was made
Finished(i) ==
    /\ i \in copied
    /\ cache[get_path(ModAt(i).source)] # NoFile
    /\ mods[ModAt(i).name] # NoFile

\* C16: within one run at most one download is in flight; the download, the cache
\* write and the copy of the selected entry at index i are finished before entry
\* i + 1 is examined, and entries are processed in increasing manifest index.
C16_Sequential ==
    [][/\ dl # NoDl => pc = "download"
       /\ pc \in {"download", "write", "copy"} =>
             /\ mod_idx \in lookedUp
             /\ \A i \in (lookedUp \cup downloaded) \ {mod_idx} : i < mod_idx /\ Finished(i)
       /\ \A i \in lookedUp \cup downloaded \cup copied : i <= mod_idx
       /\ \A i \in SelectedIndices : i < mod_idx => Finished(i)
       /\ mod_idx' # mod_idx =>
             \/ /\ mod_idx' = mod_idx + 1
                /\ pc' = "loop"
                /\ Selected(CurrentMod) => (pc = "copy" /\ \A i \in SelectedIndices :
                                               i <= mod_idx => Finished(i)')
             \/ /\ mod_idx' = 0
                /\ lookedUp' = {} /\ downloaded' = {} /\ copied' = {}
       /\ lookedUp' \notin {lookedUp, {}} =>
             /\ lookedUp' = lookedUp \cup {mod_idx}
             /\ \A i \in lookedUp : i < mod_idx]_vars

C16_Witness ==
    /\ pc = "download"
    /\ mod_idx = 1
    /\ downloaded = {0, 1}
    /\ copied = {0}
    /\ dl # NoDl

\* the errors of a download or of an extraction
DownloadErrors == {"TransportError", "InvalidVersionProfile", "ZipError", "Panic"}

\* C17: a cache entry is written only after the download of that mod, and its
\* extraction when extract = true, succeeded in full; a run that fails while
\* downloading or extracting a mod leaves no cache entry at that mod's cache path,
\* and an entry is taken for a cache hit only when its cache entry exists.
C17_NoCachePoisoning ==
    [][/\ cache' # cache =>
             /\ pc = "write" /\ pc' = "copy"
             /\ mod_idx \in downloaded
             /\ retrieved_bytes # NoFile
             /\ final_file # NoFile
             /\ cache' = [cache EXCEPT ![get_path(CurrentMod.source)] = final_file]
             /\ (CurrentMod.source.kind = "SkipAd" /\ CurrentMod.source.extract) =>
                   /\ IsZip(retrieved_bytes)
                   /\ \E i \in JarIndices(Archive(retrieved_bytes)) :
                         final_file = Archive(retrieved_bytes)[i].data
       /\ (pc = "download" /\ pc' = "done") =>
             /\ failedAt' = mod_idx
             /\ retrieved' \in DownloadErrors
             /\ cache'[get_path(CurrentMod.source)] = NoFile
       /\ (failedAt \in downloaded /\ retrieved \in DownloadErrors) =>
             cache[get_path(ModAt(failedAt).source)] = NoFile
       /\ (pc = "loop" /\ pc' = "copy") => cache[get_path(CurrentMod.source)] # NoFile]_vars

C17_Witness ==
    /\ pc = "done"
    /\ retrieved = "InvalidVersionProfile"
    /\ failedAt = 1
    /\ failedAt \in downloaded
    /\ retrieved_bytes = "zip3"
    /\ cache["x.jar"] = NoFile
    /\ cache["g/y/1/y-1.jar"] # NoFile

CachePathAt(i) == get_path(ModAt(i).source)

\* the selected entries that come first, in manifest order, for their cache path
FirstForPath == {i \in SelectedIndices :
                    \A j \in SelectedIndices : CachePathAt(j) = CachePathAt(i) => i <= j}

\* C18: within one run, of several selected entries whose sources map to the same
\* cache path only the first in manifest order downloads and each later one is a
\* cache hit on the entry just written; the downloads of a successful run are as
\* many as the distinct cache paths of selected entries that were absent when the
\* run started.
C18_OneDownloadPerKey ==
    /\ \A i, j \in downloaded : CachePathAt(i) = CachePathAt(j) => i = j
    /\ \A i \in downloaded : i \in FirstForPath /\ CachePathAt(i) \in absentAtStart
    /\ \A i \in copied \ downloaded :
          (CachePathAt(i) \in absentAtStart) =>
              \E j \in downloaded \cap copied : j < i /\ CachePathAt(j) = CachePathAt(i)
    /\ retrieved = "Ok" =>
          /\ copied = SelectedIndices
          /\ Cardinality(downloaded) =
                Cardinality({CachePathAt(i) : i \in SelectedIndices} \cap absentAtStart)

C18_Witness ==
    /\ retrieved = "Ok"
    /\ Len(manifest.mods) = 2
    /\ ModAt(0).source # ModAt(1).source
    /\ CachePathAt(0) = CachePathAt(1)
    /\ CachePathAt(0) \in absentAtStart
    /\ downloaded = {0}
    /\ copied = {0, 1}

\* the selected entries named n
NamedSelected(n) == {i \in SelectedIndices : ModAt(i).name = n}

\* C19: when two selected entries have the same name, the copy of the later one
\* overwrites <name>.jar of the earlier one: after a successful run that file
\* holds the bytes of the cache entry of the last selected entry with that name,
\* and the mods directory holds one file per distinct selected name.
C19_NameCollision ==
    /\ retrieved = "Ok" =>
          /\ \A n \in Names :
                IF NamedSelected(n) = {}
                THEN mods[n] = NoFile
                ELSE \E last \in NamedSelected(n) :
                        /\ \A i \in NamedSelected(n) : i <= last
                        /\ mods[n] = cache[CachePathAt(last)]
                        /\ mods[n] # NoFile
          /\ Present(mods) = {ModAt(i).name : i \in SelectedIndices}
    /\ \A i \in copied :
          (\A j \in copied : ModAt(j).name = ModAt(i).name => j <= i) =>
              mods[ModAt(i).name] = cache[CachePathAt(i)]

C19_Witness ==
    /\ retrieved = "Ok"
    /\ Len(manifest.mods) = 2
    /\ ModAt(0).name = ModAt(1).name
    /\ copied = {0, 1}
    /\ cache[CachePathAt(0)] # cache[CachePathAt(1)]
    /\ mods[ModAt(1).name] = cache[CachePathAt(1)]

====
